---- MODULE Spec2Model ----
(***************************************************************************)
(* Model of scilpy's fiber density map along streamlines                   *)
(* (scilpy/reconst/bingham_metrics_along_streamlines.py) and of the        *)
(* scil_concatenate_dwi script.                                            *)
(*                                                                         *)
(* Conventions of the fiber density model:                                 *)
(*  - a point, a segment and a voxel index are 3-tuples of integers; the   *)
(*    crossing points are taken on the integer lattice of voxel space and  *)
(*    consecutive points differ along one axis, so that every Euclidean    *)
(*    length and every unit direction is an integer vector;                *)
(*  - a lobe peak direction is a unit vector written in fifths             *)
(*    (<<3, 4, 0>> is (0.6, 0.8, 0)), so cos_theta and min_cos_theta are   *)
(*    kept in fifths as well;                                              *)
(*  - the values of the accumulator maps are exact rationals <<n, d>>;     *)
(*  - a tractogram is the coordinate space and the origin its points are   *)
(*    expressed in; the points themselves enter the model as the crossing  *)
(*    points grid_intersections returns for the converted tractogram;      *)
(*  - one step of the machine is one pass of a loop body: the two          *)
(*    accumulators of lines 107-108 change in the same step.               *)
(***************************************************************************)
EXTENDS Integers, Sequences, FiniteSets, TLC

VARIABLES
    pc,                  \* position in fiber_density_map_along_streamlines
    sft,                 \* the caller's StatefulTractogram (space, origin)
    sft_before,          \* the tractogram as the caller passed it
    bingham_coeffs,      \* [shape, peaks]: lobe volume, peaks per voxel
    fd,                  \* [shape, data]: density per voxel and lobe
    max_theta,           \* angular threshold in degrees
    length_weighting,    \* BOOLEAN
    all_crossed_indices, \* grid_intersections(sft.streamlines)
    fd_sum_map,          \* accumulator (and, once normalized, the output)
    weight_map,          \* accumulator
    s_idx,               \* streamlines taken from all_crossed_indices so far
    k_idx,               \* segments of the current streamline processed
    vox_idx,             \* loop local: voxel index of the last segment
    seg_dir,             \* loop local: unit direction of the last segment
    norm_weight,         \* loop local: weight of the last segment
    fd_val,              \* loop local: density picked for the last segment
    result,              \* what fiber_density_map_along_streamlines returned
    cat                  \* state of scil_concatenate_dwi's main

vars == <<pc, sft, sft_before, bingham_coeffs, fd, max_theta, length_weighting,
          all_crossed_indices, fd_sum_map, weight_map, s_idx, k_idx, vox_idx,
          seg_dir, norm_weight, fd_val, result, cat>>

fdvars == <<pc, sft, sft_before, bingham_coeffs, fd, max_theta,
            length_weighting, all_crossed_indices, fd_sum_map, weight_map,
            s_idx, k_idx, vox_idx, seg_dir, norm_weight, fd_val, result>>

----------------------------------------------------------------------------
(* Bounds *)

\* most crossing points of one streamline
MaxPts == 3

----------------------------------------------------------------------------
(* Arithmetic helpers *)

Abs(x) == IF x < 0 THEN -x ELSE x

RECURSIVE GCD(_, _)
GCD(a, b) == IF b = 0 THEN a ELSE GCD(b, a % b)

\* the rational n/d in lowest terms, with a positive denominator
Rat(n, d) ==
    LET g == GCD(Abs(n), Abs(d))
        s == IF d < 0 THEN -1 ELSE 1
    IN  <<(s * n) \div g, (s * d) \div g>>

Zero == <<0, 1>>

RatAdd(p, q) == Rat(p[1] * q[2] + q[1] * p[2], p[2] * q[2])

RatMul(p, q) == Rat(p[1] * q[1], p[2] * q[2])

RatDiv(p, q) == Rat(p[1] * q[2], p[2] * q[1])

VSub(a, b) == <<a[1] - b[1], a[2] - b[2], a[3] - b[3]>>

VAdd(a, b) == <<a[1] + b[1], a[2] + b[2], a[3] + b[3]>>

Dot(a, b) == a[1] * b[1] + a[2] * b[2] + a[3] * b[3]

\* np.linalg.norm of an integer vector whose norm is an integer
Norm(v) == CHOOSE r \in 0..Dot(v, v) : r * r = Dot(v, v)

\* astype(int) of n/2: truncation toward zero
TruncHalf(n) == IF n >= 0 THEN n \div 2 ELSE -((-n) \div 2)

----------------------------------------------------------------------------
(* NumPy indexing of a volume of spatial shape `shape` by a tuple *)

Voxels(shape) == (0..(shape[1] - 1)) \X (0..(shape[2] - 1)) \X (0..(shape[3] - 1))

\* an index i addresses an axis of length n when -n <= i < n
IndexOk(idx, shape) == \A a \in 1..3 : -shape[a] <= idx[a] /\ idx[a] < shape[a]

\* the cell a valid index addresses: a negative index counts from the end
Wrap(i, n) == IF i < 0 THEN i + n ELSE i

Cell(idx, shape) ==
    <<Wrap(idx[1], shape[1]), Wrap(idx[2], shape[2]), Wrap(idx[3], shape[3])>>

----------------------------------------------------------------------------
(* fd_sum_along_streamlines: the per-streamline vector computations *)

\* line 73: crossed_indices[1:] - crossed_indices[:-1]
Segments(crossed_indices) ==
    [i \in 1..(Len(crossed_indices) - 1) |->
        VSub(crossed_indices[i + 1], crossed_indices[i])]

\* line 74: np.linalg.norm(segments, axis=1)
SegLengths(crossed_indices) ==
    [i \in 1..(Len(crossed_indices) - 1) |->
        Norm(VSub(crossed_indices[i + 1], crossed_indices[i]))]

RECURSIVE NonZero(_, _)
NonZero(lengths, i) ==
    IF i > Len(lengths) THEN <<>>
    ELSE IF lengths[i] # 0 THEN <<i>> \o NonZero(lengths, i + 1)
    ELSE NonZero(lengths, i + 1)

\* line 78: np.nonzero(seg_lengths)[0], the positions of the non-zero
\* lengths, in order
NonZeroLengths(crossed_indices) == NonZero(SegLengths(crossed_indices), 1)

\* line 83: crossed_indices[non_zero_lengths]
SegStart(crossed_indices) ==
    LET non_zero_lengths == NonZeroLengths(crossed_indices)
    IN  [j \in 1..Len(non_zero_lengths) |-> crossed_indices[non_zero_lengths[j]]]

\* line 79 keeping the first segments instead of the non-zero ones
KeptSegmentsUnfiltered(crossed_indices) ==
    LET non_zero_lengths == NonZeroLengths(crossed_indices)
        segments         == Segments(crossed_indices)
    IN  [j \in 1..Len(non_zero_lengths) |-> segments[j]]

\* line 79: segments[non_zero_lengths]
KeptSegments(crossed_indices) ==
    LET non_zero_lengths == NonZeroLengths(crossed_indices)
        segments         == Segments(crossed_indices)
    IN  [j \in 1..Len(non_zero_lengths) |-> segments[non_zero_lengths[j]]]

\* line 80: seg_lengths[non_zero_lengths]
KeptLengths(crossed_indices) ==
    LET non_zero_lengths == NonZeroLengths(crossed_indices)
        seg_lengths      == SegLengths(crossed_indices)
    IN  [j \in 1..Len(non_zero_lengths) |-> seg_lengths[non_zero_lengths[j]]]

\* line 84: (seg_start + 0.5 * segments).astype(int)
VoxIndices(crossed_indices) ==
    LET seg_start == SegStart(crossed_indices)
        segments  == KeptSegments(crossed_indices)
    IN  [j \in 1..Len(segments) |->
            <<TruncHalf(2 * seg_start[j][1] + segments[j][1]),
              TruncHalf(2 * seg_start[j][2] + segments[j][2]),
              TruncHalf(2 * seg_start[j][3] + segments[j][3])>>]

\* lines 86-88: ones, or the lengths under length weighting
NormalizationWeights(crossed_indices, lw) ==
    LET seg_lengths == KeptLengths(crossed_indices)
    IN  [j \in 1..Len(seg_lengths) |-> IF lw THEN seg_lengths[j] ELSE 1]

\* line 90: segments / seg_lengths (exact: the segments are axis-aligned)
NormalizedSeg(crossed_indices) ==
    LET segments    == KeptSegments(crossed_indices)
        seg_lengths == KeptLengths(crossed_indices)
    IN  [j \in 1..Len(segments) |->
            <<segments[j][1] \div seg_lengths[j], segments[j][2] \div seg_lengths[j],
              segments[j][3] \div seg_lengths[j]>>]

----------------------------------------------------------------------------
(* fd_sum_along_streamlines: the per-segment computations *)

\* np.cos(np.radians(max_theta)) in fifths, for the angles whose cosine is a
\* multiple of 1/5 (37 and 53 stand for arccos(4/5) and arccos(3/5))
MinCosTheta(theta) ==
    CASE theta = 0 -> 5
      [] theta = 37 -> 4
      [] theta = 53 -> 3
      [] theta = 90 -> 0

\* np.abs(np.dot(seg_dir, bingham_peak_dir.T)) in fifths, one entry per lobe
CosTheta(dir, peaks) == [l \in 1..Len(peaks) |-> Abs(Dot(dir, peaks[l]))]

\* (cos_theta > min_cos_theta).any()
AnyAbove(cos_theta, min_cos_theta) ==
    \E l \in 1..Len(cos_theta) : cos_theta[l] > min_cos_theta

\* np.argmax: the first position of the largest entry
ArgMax(cos_theta) ==
    CHOOSE l \in 1..Len(cos_theta) :
        /\ \A m \in 1..Len(cos_theta) : cos_theta[m] <= cos_theta[l]
        /\ \A m \in 1..(l - 1) : cos_theta[m] < cos_theta[l]

----------------------------------------------------------------------------
\* lines 102-105, with >= for >
FdValInclusive(cos_theta, min_cos_theta, densities) ==
    IF \E l \in 1..Len(cos_theta) : cos_theta[l] >= min_cos_theta
    THEN densities[ArgMax(cos_theta)]
    ELSE 0

\* lines 102-105: the density of the best lobe, when a lobe is close enough
FdVal(cos_theta, min_cos_theta, densities) ==
    IF AnyAbove(cos_theta, min_cos_theta)
    THEN densities[ArgMax(cos_theta)]
    ELSE 0

\* lines 107-108, without the weight
AccumulateSumOnly(st, c, v, w) ==
    [st EXCEPT !.fd_val = v, !.fd_sum_map[c] = RatAdd(@, Rat(v * w, 1))]

\* lines 107-108: both accumulators take the segment, at the same cell
Accumulate(st, c, v, w) ==
    [st EXCEPT !.fd_val = v,
               !.fd_sum_map[c] = RatAdd(@, Rat(v * w, 1)),
               !.weight_map[c] = RatAdd(@, Rat(w, 1))]

(* One pass of the inner loop body (lines 95-108) on segment j of a        *)
(* streamline, from the accumulators and the locals in `st`.  An index out *)
(* of range raises IndexError where the volume is first read or written.   *)
ProcessSegment(st, crossed_indices, j, bingham, density, theta, lw) ==
    LET idx  == VoxIndices(crossed_indices)[j]
        dir  == NormalizedSeg(crossed_indices)[j]
        w    == NormalizationWeights(crossed_indices, lw)[j]
        loc  == [st EXCEPT !.vox_idx = idx, !.seg_dir = dir, !.norm_weight = w]
    IN  IF ~IndexOk(idx, bingham.shape)
        THEN \* line 96: bingham_coeffs[vox_idx] raises
             [loc EXCEPT !.err = TRUE]
        ELSE IF ~IndexOk(idx, density.shape)
        THEN \* line 105 or 107: fd[vox_idx] or fd_sum_map[vox_idx] raises,
             \* after fd_val = 0.0
             [loc EXCEPT !.err = TRUE, !.fd_val = 0]
        ELSE
        LET cos_theta == CosTheta(dir, bingham.peaks[Cell(idx, bingham.shape)])
            c         == Cell(idx, density.shape)
        IN  Accumulate(loc, c,
                       FdVal(cos_theta, MinCosTheta(theta), density.data[c]), w)

\* lines 33-35, multiplying
NormalizeTimes(fd_sum, weights) ==
    [c \in DOMAIN fd_sum |->
        IF fd_sum[c] # Zero THEN RatMul(fd_sum[c], weights[c]) ELSE fd_sum[c]]

\* lines 33-35, dividing twice
NormalizeTwice(fd_sum, weights) ==
    [c \in DOMAIN fd_sum |->
        IF fd_sum[c] # Zero
        THEN RatDiv(RatDiv(fd_sum[c], weights[c]), weights[c])
        ELSE fd_sum[c]]

(* lines 33-35: fd_sum[non_zeros] /= weights[non_zeros], on fd_sum itself *)
NormalizeInPlace(fd_sum, weights) ==
    [c \in DOMAIN fd_sum |->
        IF fd_sum[c] # Zero THEN RatDiv(fd_sum[c], weights[c]) ELSE fd_sum[c]]

(* sft.to_vox(); sft.to_corner(): both act on the caller's tractogram *)
ToVox(t) == [t EXCEPT !.space = "vox"]

ToCorner(t) == [t EXCEPT !.origin = "corner"]

\* np.zeros(fd.shape[:-1])
Zeros(shape) == [c \in Voxels(shape) |-> Zero]

----------------------------------------------------------------------------
(* The locals of the loop as one record, read from and written to the state *)

Locals ==
    [fd_sum_map |-> fd_sum_map, weight_map |-> weight_map, vox_idx |-> vox_idx,
     seg_dir |-> seg_dir, norm_weight |-> norm_weight, fd_val |-> fd_val,
     err |-> FALSE]

None == <<>>

Inputs ==
    <<bingham_coeffs, fd, max_theta, length_weighting, all_crossed_indices,
      sft_before>>

(* lines 64-71: convert the tractogram, allocate the accumulators *)
Begin ==
    /\ pc = "start"
    /\ sft' = ToCorner(ToVox(sft))
    /\ fd_sum_map' = Zeros(fd.shape)
    /\ weight_map' = Zeros(fd.shape)
    /\ s_idx' = 0
    /\ k_idx' = 0
    /\ pc' = "for_streamline"
    /\ UNCHANGED <<Inputs, vox_idx, seg_dir, norm_weight, fd_val, result, cat>>

(* line 72: take the next streamline's crossing points *)
NextStreamline ==
    /\ pc = "for_streamline"
    /\ s_idx < Len(all_crossed_indices)
    /\ s_idx' = s_idx + 1
    /\ k_idx' = 0
    /\ pc' = "for_segment"
    /\ UNCHANGED <<Inputs, sft, fd_sum_map, weight_map, vox_idx, seg_dir,
                   norm_weight, fd_val, result, cat>>

(* line 92: the zip is exhausted, back to the outer loop *)
EndSegments ==
    /\ pc = "for_segment"
    /\ k_idx = Len(NonZeroLengths(all_crossed_indices[s_idx]))
    /\ pc' = "for_streamline"
    /\ UNCHANGED <<Inputs, sft, fd_sum_map, weight_map, s_idx, k_idx, vox_idx,
                   seg_dir, norm_weight, fd_val, result, cat>>

(* lines 92-108: one segment *)
Segment ==
    /\ pc = "for_segment"
    /\ k_idx < Len(NonZeroLengths(all_crossed_indices[s_idx]))
    /\ \E r \in {ProcessSegment(Locals, all_crossed_indices[s_idx], k_idx + 1,
                                 bingham_coeffs, fd, max_theta, length_weighting)} :
           /\ fd_sum_map' = r.fd_sum_map
           /\ weight_map' = r.weight_map
           /\ vox_idx' = r.vox_idx
           /\ seg_dir' = r.seg_dir
           /\ norm_weight' = r.norm_weight
           /\ fd_val' = r.fd_val
           /\ pc' = IF r.err THEN "IndexError" ELSE "for_segment"
    /\ k_idx' = k_idx + 1
    /\ UNCHANGED <<Inputs, sft, s_idx, result, cat>>

(* line 110: all streamlines done, the two maps are returned *)
Return ==
    /\ pc = "for_streamline"
    /\ s_idx = Len(all_crossed_indices)
    /\ pc' = "normalize"
    /\ UNCHANGED <<Inputs, sft, fd_sum_map, weight_map, s_idx, k_idx, vox_idx,
                   seg_dir, norm_weight, fd_val, result, cat>>

(* lines 33-37: normalize fd_sum in place and return it *)
Normalize ==
    /\ pc = "normalize"
    /\ fd_sum_map' = NormalizeInPlace(fd_sum_map, weight_map)
    /\ result' = fd_sum_map'
    /\ pc' = "done"
    /\ UNCHANGED <<Inputs, sft, weight_map, s_idx, k_idx, vox_idx, seg_dir,
                   norm_weight, fd_val, cat>>

----------------------------------------------------------------------------
(* The inputs the model is run on *)

\* lobe peak directions, in fifths
PeakX == <<5, 0, 0>>
PeakY == <<0, 5, 0>>
PeakXY == <<3, 4, 0>>
PeakXYm == <<3, -4, 0>>

\* the peaks of the lobes of one voxel, as bingham_to_peak_direction gives them
LobeConfigs == << <<PeakX, PeakXY>>, <<PeakXY, PeakXYm>>, <<PeakXY, PeakY>> >>

N_LOBES == Len(LobeConfigs[1])

\* position of a voxel in C order, as np.arange(...).reshape(shape) numbers it
Linear(c, shape) == (c[1] * shape[2] + c[2]) * shape[3] + c[3]

BinghamVolume(shape, shift) ==
    [shape |-> shape,
     peaks |-> [c \in Voxels(shape) |->
                  LobeConfigs[((Linear(c, shape) + shift) % Len(LobeConfigs)) + 1]]]

FdVolume(shape, base) ==
    [shape |-> shape,
     data  |-> [c \in Voxels(shape) |->
                  [l \in 1..N_LOBES |-> base + N_LOBES * Linear(c, shape) + (l - 1)]]]

Starts == {<<0, 0, 0>>, <<1, 0, 0>>}

Steps == {<<0, 0, 0>>, <<1, 0, 0>>, <<2, 0, 0>>, <<-2, 0, 0>>, <<0, 1, 0>>}

RECURSIVE Walks(_)
Walks(n) ==
    IF n = 1 THEN {<<p>> : p \in Starts}
    ELSE {Append(w, VAdd(w[Len(w)], d)) : w \in Walks(n - 1), d \in Steps}

Streamlines == UNION {Walks(n) : n \in 2..MaxPts}

\* a second, two-point streamline through the first voxel
SecondStreamlines ==
    {<<p, VAdd(p, d)>> : p \in {<<0, 0, 0>>},
                         d \in {<<1, 0, 0>>, <<-2, 0, 0>>, <<0, 1, 0>>}}

Tractograms ==
    {<<>>} \cup {<<a>> : a \in Streamlines}
           \cup {<<a, b>> : a \in Streamlines, b \in SecondStreamlines}

SftInputs ==
    {[space |-> "rasmm", origin |-> "center"],
     [space |-> "vox", origin |-> "corner"]}

Thetas == {37, 53}

FullShape == <<2, 1, 1>>

Shapes == {<<1, 1, 1>>, <<2, 1, 1>>}

----------------------------------------------------------------------------
(* scil_concatenate_dwi.  A DWI is the sequence of its volumes along the   *)
(* 4th axis, a bval file the sequence of its b-values, a bvec file the     *)
(* sequence of its b-vectors.  `cat.args` is the argparse Namespace: its   *)
(* attributes are the destinations _build_arg_parser declares.             *)

\* most input DWIs, and most volumes of one input
MaxInputs == 3
MaxVols == 2

\* attribute access on the Namespace
HasAttr(args, name) == name \in DOMAIN args

RECURSIVE Flatten(_)
\* np.concatenate of a list of arrays
Flatten(arrays) ==
    IF arrays = <<>> THEN <<>> ELSE Head(arrays) \o Flatten(Tail(arrays))

\* arr[..., lo:hi] = data; the slice is clipped to the array, and the shapes
\* must agree
SliceFits(arr, lo, hi, data) ==
    LET top == IF hi < Len(arr) THEN hi ELSE Len(arr)
        n   == IF top > lo THEN top - lo ELSE 0
    IN  n = Len(data)

SliceAssign(arr, lo, hi, data) ==
    [i \in 1..Len(arr) |-> IF lo < i /\ i <= lo + Len(data) THEN data[i - lo] ELSE arr[i]]

RECURSIVE FillDwi(_, _, _, _)
\* lines 78-83: the loop over the inputs after the first; last_count is
\* not advanced by the loop
FillDwi(all_dwi, dwis, i, last_count) ==
    IF i > Len(dwis) THEN [status |-> "ok", all_dwi |-> all_dwi]
    ELSE IF Len(dwis[i]) # Len(dwis[1])
    THEN [status |-> "ValueError", all_dwi |-> all_dwi]
    ELSE IF ~SliceFits(all_dwi, last_count, last_count + Len(dwis[i]), dwis[i])
    THEN [status |-> "ValueError", all_dwi |-> all_dwi]
    ELSE FillDwi(SliceAssign(all_dwi, last_count, last_count + Len(dwis[i]), dwis[i]),
                 dwis, i + 1, last_count)

NoOutput == [out_dwi |-> None, out_bval |-> None, out_bvecs |-> None]

Failed(status) == [status |-> status, written |-> NoOutput]

(* main, lines 48-88, on the parsed arguments and the files they name *)
Main(args, files) ==
    IF ~HasAttr(args, "in_dwi")
    THEN Failed("AttributeError")                               \* line 52
    ELSE IF Len(args.in_dwi) # Len(args.in_bvals) \/ Len(args.in_dwi) # Len(args.in_bvecs)
    THEN Failed("parser.error")                                 \* line 54
    ELSE IF ~HasAttr(args, "out_bvec")
    THEN Failed("AttributeError")                               \* line 58
    ELSE IF \E i \in 1..Len(args.in_dwi) : Len(files.bvals[i]) # Len(files.bvecs[i])
    THEN Failed("ValueError")                                   \* line 66
    ELSE
    LET all_bvals  == Flatten(files.bvals)
        all_bvecs  == Flatten(files.bvecs)
        total_size == Len(all_bvals)
        ref_dwi    == files.dwis[1]
        last_count == Len(ref_dwi)
        zeros      == [i \in 1..total_size |-> 0]
    IN  IF ~SliceFits(zeros, 0, last_count, ref_dwi)
        THEN Failed("ValueError")                               \* line 77
        ELSE
        LET filled == FillDwi(SliceAssign(zeros, 0, last_count, ref_dwi),
                              files.dwis, 2, last_count)
        IN  IF filled.status # "ok" THEN Failed("ValueError")   \* lines 81, 83
            ELSE IF ~HasAttr(args, "out_bvals")
            THEN Failed("AttributeError")                       \* line 85
            ELSE [status  |-> "done",
                  written |-> [out_dwi   |-> filled.all_dwi,
                               out_bval  |-> all_bvals,
                               out_bvecs |-> all_bvecs]]

(* the script, run once *)
CatMain ==
    /\ cat # None
    /\ cat.status = "start"
    /\ LET r == Main(cat.args, cat.files)
       IN  cat' = [cat EXCEPT !.status = r.status, !.written = r.written]
    /\ UNCHANGED fdvars

\* what parse_args returns for k inputs: one attribute per declared argument
Namespace(k) ==
    [out_dwi   |-> "out.nii",
     out_bval  |-> "out.bval",
     out_bvecs |-> "out.bvec",
     in_dwis   |-> [i \in 1..k |-> <<"dwi", i>>],
     in_bvals  |-> [i \in 1..k |-> <<"bval", i>>],
     in_bvecs  |-> [i \in 1..k |-> <<"bvec", i>>],
     data_type |-> None,
     overwrite |-> FALSE]

\* input i with the given b-values: its volumes and b-vectors are numbered
\* so that no two of them, in any two inputs, are equal
DwiFile(i, bvals) == [j \in 1..Len(bvals) |-> 10 * i + j]

BvecFile(i, bvals) == [j \in 1..Len(bvals) |-> <<i, j>>]

BvalFiles == UNION {[1..n -> {0, 1000}] : n \in 1..MaxVols}

InitConcat ==
    /\ \E k \in 1..MaxInputs :
         \E bvals \in [1..k -> BvalFiles] :
            cat = [status  |-> "start",
                   args    |-> Namespace(k),
                   files   |-> [dwis  |-> [i \in 1..k |-> DwiFile(i, bvals[i])],
                                bvals |-> bvals,
                                bvecs |-> [i \in 1..k |-> BvecFile(i, bvals[i])]],
                   written |-> NoOutput]
    /\ pc = "idle"
    /\ sft = None
    /\ sft_before = None
    /\ bingham_coeffs = None
    /\ fd = None
    /\ max_theta = 0
    /\ length_weighting = FALSE
    /\ all_crossed_indices = <<>>
    /\ fd_sum_map = None
    /\ weight_map = None
    /\ s_idx = 0
    /\ k_idx = 0
    /\ vox_idx = None
    /\ seg_dir = None
    /\ norm_weight = 0
    /\ fd_val = 0
    /\ result = None

NextConcat == CatMain

SpecConcat == InitConcat /\ [][NextConcat]_vars

----------------------------------------------------------------------------
InitCat ==
    cat = None

InitLocals ==
    /\ pc = "start"
    /\ sft_before = sft
    /\ fd_sum_map = None
    /\ weight_map = None
    /\ s_idx = 0
    /\ k_idx = 0
    /\ vox_idx = None
    /\ seg_dir = None
    /\ norm_weight = 0
    /\ fd_val = 0
    /\ result = None

(* Volumes of one shape, any of the tractograms *)
Init ==
    /\ sft \in SftInputs
    /\ bingham_coeffs \in {BinghamVolume(FullShape, h) : h \in 0..(Len(LobeConfigs) - 1)}
    /\ fd \in {FdVolume(FullShape, b) : b \in {0, 2}}
    /\ max_theta \in Thetas
    /\ length_weighting \in BOOLEAN
    /\ all_crossed_indices \in Tractograms
    /\ InitLocals
    /\ InitCat

(* Volumes of any two shapes, a tractogram in any space, one streamline *)
InitShapes ==
    /\ sft \in SftInputs
    /\ \E bs \in Shapes, h \in 0..(Len(LobeConfigs) - 1) :
          bingham_coeffs = BinghamVolume(bs, h)
    /\ \E fs \in Shapes : fd = FdVolume(fs, 2)
    /\ max_theta \in Thetas
    /\ length_weighting \in BOOLEAN
    /\ all_crossed_indices \in {<<>>} \cup {<<a>> : a \in Streamlines}
    /\ InitLocals
    /\ InitCat

Next ==
    \/ Begin
    \/ NextStreamline
    \/ Segment
    \/ EndSegments
    \/ Return
    \/ Normalize

Spec == Init /\ [][Next]_vars

SpecShapes == InitShapes /\ [][Next]_vars

----------------------------------------------------------------------------
(* fd_sum_along_streamlines as a function of the crossing points: the loop *)
(* of lines 67-110 run to its end, or to the first IndexError              *)

RECURSIVE RunSegments(_, _, _)
RunSegments(st, crossed_indices, j) ==
    IF st.err \/ j > Len(NonZeroLengths(crossed_indices)) THEN st
    ELSE RunSegments(ProcessSegment(st, crossed_indices, j, bingham_coeffs, fd,
                                    max_theta, length_weighting),
                     crossed_indices, j + 1)

RECURSIVE RunStreamlines(_, _, _)
RunStreamlines(st, crossed, s) ==
    IF st.err \/ s > Len(crossed) THEN st
    ELSE RunStreamlines(RunSegments(st, crossed[s], 1), crossed, s + 1)

FdSumAlongStreamlines(crossed) ==
    RunStreamlines([fd_sum_map |-> Zeros(fd.shape), weight_map |-> Zeros(fd.shape),
                    vox_idx |-> None, seg_dir |-> None, norm_weight |-> 0,
                    fd_val |-> 0, err |-> FALSE], crossed, 1)

----------------------------------------------------------------------------
(* Vocabulary of the properties *)

One == <<1, 1>>

Allocated == pc \in {"for_streamline", "for_segment", "IndexError", "normalize", "done"}

\* a voxel index inside the volume extents
InExtent(idx, shape) == \A a \in 1..3 : 0 <= idx[a] /\ idx[a] < shape[a]

\* the segments of the tractogram, as <<streamline, first point>>, of
\* non-zero length
RealSegments ==
    {x \in UNION {{<<s, i>> : i \in 1..(Len(all_crossed_indices[s]) - 1)} :
                    s \in 1..Len(all_crossed_indices)} :
        all_crossed_indices[x[1]][x[2]] # all_crossed_indices[x[1]][x[2] + 1]}

SegFrom(x) == all_crossed_indices[x[1]][x[2]]

SegTo(x) == all_crossed_indices[x[1]][x[2] + 1]

\* Euclidean length of an axis-aligned segment
SegLength(x) ==
    Abs(SegTo(x)[1] - SegFrom(x)[1]) + Abs(SegTo(x)[2] - SegFrom(x)[2])
        + Abs(SegTo(x)[3] - SegFrom(x)[3])

\* the midpoint of the segment, truncated to integers
MidVoxel(x) ==
    <<TruncHalf(SegFrom(x)[1] + SegTo(x)[1]), TruncHalf(SegFrom(x)[2] + SegTo(x)[2]),
      TruncHalf(SegFrom(x)[3] + SegTo(x)[3])>>

SegWeight(x) == IF length_weighting THEN SegLength(x) ELSE 1

\* |cos| between the segment and lobe l of voxel c, in fifths, times the length
SegCos(x, c, l) == Abs(Dot(VSub(SegTo(x), SegFrom(x)), bingham_coeffs.peaks[c][l]))

\* the lobes of voxel c closest to the segment, and the first of them
BestLobes(x, c) ==
    {l \in 1..N_LOBES : \A m \in 1..N_LOBES : SegCos(x, c, m) <= SegCos(x, c, l)}

BestLobe(x, c) == CHOOSE l \in BestLobes(x, c) : \A m \in BestLobes(x, c) : l <= m

\* the lobe selection rule for a segment lying in voxel c
RuleFd(x, c) ==
    IF SegCos(x, c, BestLobe(x, c)) > MinCosTheta(max_theta) * SegLength(x)
    THEN fd.data[c][BestLobe(x, c)]
    ELSE 0

\* no segment has a negative voxel index
StaysNonNegative ==
    \A x \in RealSegments : \A a \in 1..3 : MidVoxel(x)[a] >= 0

\* every segment lies in a voxel of both volumes
StaysInside ==
    \A x \in RealSegments :
        InExtent(MidVoxel(x), fd.shape) /\ InExtent(MidVoxel(x), bingham_coeffs.shape)

RECURSIVE SumWeight(_)
SumWeight(S) ==
    IF S = {} THEN 0
    ELSE LET x == CHOOSE y \in S : TRUE IN SegWeight(x) + SumWeight(S \ {x})

RECURSIVE SumFd(_, _)
SumFd(S, c) ==
    IF S = {} THEN 0
    ELSE LET x == CHOOSE y \in S : TRUE
         IN  RuleFd(x, c) * SegWeight(x) + SumFd(S \ {x}, c)

RECURSIVE Dedup(_)
\* a sequence of points without the points equal to their predecessor
Dedup(points) ==
    IF Len(points) <= 1 THEN points
    ELSE IF points[Len(points)] = points[Len(points) - 1]
         THEN Dedup(SubSeq(points, 1, Len(points) - 1))
         ELSE Append(Dedup(SubSeq(points, 1, Len(points) - 1)), points[Len(points)])

HasDuplicate(points) == \E i \in 1..(Len(points) - 1) : points[i] = points[i + 1]

----------------------------------------------------------------------------
(* C1: once the accumulators exist, after any number of processed          *)
(* segments and after normalization, every voxel has weight_map >= 0, and  *)
(* weight_map = 0 implies fd_sum_map = 0; the returned map is 0 at every    *)
(* voxel of weight 0.                                                       *)
C1_WeightCoversSum ==
    Allocated =>
        \A c \in DOMAIN weight_map :
            /\ weight_map[c][1] >= 0
            /\ weight_map[c] = Zero => fd_sum_map[c] = Zero
            /\ (pc = "done" /\ weight_map[c] = Zero) => result[c] = Zero

C1_Witness ==
    /\ pc = "done"
    /\ \E c \in DOMAIN weight_map : weight_map[c] = Zero
    /\ \E c \in DOMAIN weight_map : result[c] # Zero

(* C2: the normalization step leaves the weights alone and returns, at     *)
(* every voxel of non-zero weight, the sum divided by the weight (out *     *)
(* weight = sum), and 0 at every voxel of weight 0.                         *)
C2_Normalized ==
    [][(pc = "normalize" /\ pc' = "done") =>
          /\ weight_map' = weight_map
          /\ result' = fd_sum_map'
          /\ \A c \in DOMAIN weight_map :
                /\ weight_map[c] # Zero => RatMul(result'[c], weight_map[c]) = fd_sum_map[c]
                /\ weight_map[c] = Zero => result'[c] = Zero]_vars

C2_Witness ==
    /\ pc = "done"
    /\ \E c \in DOMAIN weight_map : weight_map[c] # Zero /\ result[c] = Zero
    /\ \E c \in DOMAIN weight_map : weight_map[c][1] > 1 /\ result[c] # Zero

(* C3: the fd_val of the last processed segment follows the lobe selection *)
(* rule at the voxel the segment was assigned: the density of the first    *)
(* lobe of highest |cos| when that |cos| is strictly above min_cos_theta,  *)
(* and 0 otherwise.                                                         *)
C3_LobeRule ==
    (Allocated /\ vox_idx # None /\ pc # "IndexError") =>
        LET c    == Cell(vox_idx, fd.shape)
            cs   == [l \in 1..N_LOBES |-> Abs(Dot(seg_dir, bingham_coeffs.peaks[c][l]))]
            top  == {l \in 1..N_LOBES : \A m \in 1..N_LOBES : cs[m] <= cs[l]}
            best == CHOOSE l \in top : \A m \in top : l <= m
        IN  fd_val = IF cs[best] > MinCosTheta(max_theta) THEN fd.data[c][best] ELSE 0

\* the best lobe is at exactly the threshold, its density is not 0, fd_val is
C3_Witness ==
    /\ pc = "for_segment"
    /\ vox_idx # None
    /\ LET c  == Cell(vox_idx, fd.shape)
           cs == [l \in 1..N_LOBES |-> Abs(Dot(seg_dir, bingham_coeffs.peaks[c][l]))]
       IN  /\ \E l \in 1..N_LOBES : cs[l] = MinCosTheta(max_theta)
           /\ \A l \in 1..N_LOBES : cs[l] <= MinCosTheta(max_theta)
           /\ \A l \in 1..N_LOBES : fd.data[c][l] # 0
    /\ fd_val = 0

(* C4: when all streamlines are processed, weight_map[v] is the sum of      *)
(* norm_weight, and fd_sum_map[v] the sum of fd_val * norm_weight, over the *)
(* non-zero-length segments whose truncated midpoint is v.                  *)
C4_SumsPerVoxel ==
    pc = "normalize" =>
        \A c \in Voxels(fd.shape) :
            LET here == {x \in RealSegments : MidVoxel(x) = c}
            IN  /\ weight_map[c] = Rat(SumWeight(here), 1)
                /\ fd_sum_map[c] = Rat(SumFd(here, c), 1)

(* C5: the accumulators of a run are those of the run on the same           *)
(* streamlines with every repeated crossing point removed.                  *)
C5_ZeroLengthIgnored ==
    pc \in {"normalize", "IndexError"} =>
        LET r == FdSumAlongStreamlines(
                    [s \in 1..Len(all_crossed_indices) |-> Dedup(all_crossed_indices[s])])
        IN  /\ r.fd_sum_map = fd_sum_map
            /\ r.weight_map = weight_map
            /\ r.err = (pc = "IndexError")

C5_Witness ==
    /\ pc = "normalize"
    /\ \E s \in 1..Len(all_crossed_indices) :
          /\ HasDuplicate(all_crossed_indices[s])
          /\ Len(Dedup(all_crossed_indices[s])) >= 2
    /\ \E c \in DOMAIN weight_map : weight_map[c] # Zero

(* C6: a segment whose voxel index is outside the volume extents aborts the *)
(* computation: the program is in its error state, no cell was updated for  *)
(* it and nothing is returned.                                              *)
C6_OutOfExtentAborts ==
    (Allocated /\ vox_idx # None /\ ~InExtent(vox_idx, fd.shape)) =>
        /\ pc = "IndexError"
        /\ result = None

(* C7: when the lobe volume and the density volume disagree on their        *)
(* spatial shape, no accumulator is ever updated and nothing is returned    *)
(* (stated for streamlines of non-negative voxel indices); when they agree, *)
(* both accumulators have that shape.                                       *)
C7_ShapeMismatchFatal ==
    Allocated =>
        /\ (bingham_coeffs.shape # fd.shape /\ StaysNonNegative) =>
              /\ result = None
              /\ \A c \in DOMAIN weight_map : weight_map[c] = Zero
        /\ bingham_coeffs.shape = fd.shape =>
              /\ DOMAIN fd_sum_map = Voxels(fd.shape)
              /\ DOMAIN weight_map = Voxels(fd.shape)

(* C8, as stated: applying the normalization step again to the two volumes  *)
(* the first application was given returns the map the first one returned   *)
(* (stated for streamlines that stay inside both volumes).                  *)
C8_SameOutputTwice ==
    (pc = "done" /\ StaysInside) => NormalizeInPlace(fd_sum_map, weight_map) = result

(* C8, amended: the step divides fd_sum in place, so applied again to the   *)
(* same two volumes it divides the first output by the weight once more;    *)
(* the two outputs agree exactly at the voxels where the first output is 0  *)
(* or the weight is 1.                                                      *)
C8_SecondApplicationDividesAgain ==
    pc = "done" =>
        \A c \in DOMAIN result :
            LET again == NormalizeInPlace(fd_sum_map, weight_map)[c]
            IN  /\ result[c] = Zero => again = Zero
                /\ result[c] # Zero => RatMul(again, weight_map[c]) = result[c]
                /\ again = result[c] <=> (result[c] = Zero \/ weight_map[c] = One)

C8_Witness ==
    /\ pc = "done"
    /\ \E c \in DOMAIN result : result[c] # Zero /\ weight_map[c] \notin {Zero, One}
    /\ \E c \in DOMAIN result : result[c] # Zero /\ weight_map[c] = One

(* C9: after the call the caller's tractogram is in the space and at the    *)
(* origin it was given in.                                                  *)
C9_TractogramUntouched ==
    pc \in {"done", "IndexError"} => sft = sft_before

(* C10: the script writes the inputs' volumes, b-values and b-vectors, each *)
(* concatenated in the order the inputs were given.                         *)
C10_ConcatenatedInOrder ==
    (cat # None /\ cat.status # "start") =>
        /\ cat.status = "done"
        /\ cat.written.out_dwi = Flatten(cat.files.dwis)
        /\ cat.written.out_bval = Flatten(cat.files.bvals)
        /\ cat.written.out_bvecs = Flatten(cat.files.bvecs)

====
